---- MODULE Spec2Model ----
(***************************************************************************)
(* Model of src/src/inquiry_framework.py: the three engines                *)
(* InquiryGenerator, PerspectiveRotator and LearningPathwayDesigner, their *)
(* catalogs, the Python slicing they use to cut the catalogs, and the      *)
(* history lists the first two engines keep.                               *)
(*                                                                         *)
(* A text (str) is modelled as the tuple of its pieces: a literal is a     *)
(* one-piece tuple, an f-string the tuple of its literal pieces and of the *)
(* values interpolated into it, in order.  Enum values and the context     *)
(* tags of a Question are plain strings.                                   *)
(***************************************************************************)
EXTENDS Integers, Sequences, FiniteSets, TLC

VARIABLES
    inquiry_history,    \* InquiryGenerator.inquiry_history
    rotation_history,   \* PerspectiveRotator.rotation_history
    call,               \* the last top-level invocation: its arguments and outcome
    result,             \* what the last invocation returned (None when it raised)
    calls,              \* per engine: invocations made, invocations that returned
    trace,              \* what the caller has seen: every invocation with what it returned
    threads,            \* concurrent invocations of the generator: position and locals
    heap,               \* the stage dicts that exist; a dict's address is its index
    pathways,           \* per returned design: the stage dicts its result refers to
    instances,          \* several engines of each class: each one's attributes
    caller              \* the caller of the last call on one of these engines

vars == <<inquiry_history, rotation_history, call, result, calls, trace, threads,
          heap, pathways, instances, caller>>

(***************************************************************************)
(* Bounds of the model.                                                    *)
(***************************************************************************)
\* a single invocation takes its depth from -NegCount .. MaxDepth and its
\* stakeholder count from -NegCount .. MaxCount
NegCount == 6
MaxDepth == 7
MaxCount == 10
\* a session makes up to MaxCalls invocations on one set of engines, each
\* with a depth or stakeholder count from -1 .. MaxSessionArg
MaxCalls == 2
MaxSessionArg == 1
\* invocations of generate_inquiry_sequence running at the same time
MaxThreads == 2
\* engines constructed of each class, and calls made on them in all
MaxInstances == 2
MaxInstanceCalls == 2

Topics == {"AI in Education", "Remote Work"}

(***************************************************************************)
(* Enumerations (lines 21-45).  A member is a record of its class and its  *)
(* .value; members are equal only to themselves, as Enum members are.      *)
(***************************************************************************)
InquiryDepth ==
    [SURFACE |-> "surface", ANALYTICAL |-> "analytical",
     TRANSFORMATIVE |-> "transformative", EMERGENT |-> "emergent"]

QuestionType ==
    [ESSENTIAL |-> "essential", DIALECTICAL |-> "dialectical",
     PERSPECTIVE |-> "perspective", EMERGENT |-> "emergent",
     SYNTHETIC |-> "synthetic", PRACTICAL |-> "practical"]

Member(cls, v) == [cls |-> cls, value |-> v]

LearningContext ==
    [PERSONAL |-> Member("LearningContext", "personal"),
     EDUCATIONAL |-> Member("LearningContext", "educational"),
     ORGANIZATIONAL |-> Member("LearningContext", "organizational"),
     SOCIAL |-> Member("LearningContext", "social"),
     RESEARCH |-> Member("LearningContext", "research")]

LearningContexts == {LearningContext[n] : n \in DOMAIN LearningContext}

\* Values a caller can pass as context that are no LearningContext member:
\* a member of another Enum of the module (it has a .value), and a plain
\* string (it has no .value attribute).
ForeignMember == Member("QuestionType", QuestionType.PRACTICAL)
PlainString == [cls |-> "str", chars |-> "personal"]
UnknownContexts == {ForeignMember, PlainString}

Contexts == LearningContexts \cup UnknownContexts

\* context.value: an Enum member has it, a str raises AttributeError
HasValue(context) == context.cls # "str"

(***************************************************************************)
(* Python built-ins used by the code.                                      *)
(***************************************************************************)
Min(a, b) == IF a <= b THEN a ELSE b
Max(a, b) == IF a >= b THEN a ELSE b

\* Mutants of seq[:n]: a slice that stops one item early, and a slice that
\* fills a count beyond the catalog by starting over.
SlicePrefix_OneShort(seq, n) ==
    IF n >= 0 THEN SubSeq(seq, 1, Min(n, Len(seq)) - 1)
              ELSE SubSeq(seq, 1, Max(Len(seq) + n, 0))

SlicePrefix_Cycling(seq, n) ==
    IF n >= 0 THEN [i \in 1..n |-> seq[((i - 1) % Len(seq)) + 1]]
              ELSE SubSeq(seq, 1, Max(Len(seq) + n, 0))

\* seq[:n]: the first n items for n >= 0; all but the last -n for n < 0
SlicePrefix(seq, n) ==
    IF n >= 0 THEN SubSeq(seq, 1, Min(n, Len(seq)))
              ELSE SubSeq(seq, 1, Max(Len(seq) + n, 0))

\* The decimal digits of a natural number, as an f-string renders it.
Digit(d) ==
    CASE d = 0 -> "0" [] d = 1 -> "1" [] d = 2 -> "2" [] d = 3 -> "3" [] d = 4 -> "4"
      [] d = 5 -> "5" [] d = 6 -> "6" [] d = 7 -> "7" [] d = 8 -> "8" [] d = 9 -> "9"

RECURSIVE Str(_)
Str(n) == IF n < 10 THEN Digit(n) ELSE Str(n \div 10) \o Digit(n % 10)

\* d.get(key, default)
Get(d, key, default) == IF key \in DOMAIN d THEN d[key] ELSE default

None == [cls |-> "NoneType"]

(***************************************************************************)
(* Records (lines 48-87).                                                  *)
(***************************************************************************)
Question(text, question_type, depth_level, context, follow_ups, reasoning) ==
    [text |-> text, question_type |-> question_type,
     depth_level |-> depth_level, context |-> context,
     follow_ups |-> follow_ups, reasoning |-> reasoning]

Perspective(stakeholder, viewpoint, concerns, opportunities, questions) ==
    [stakeholder |-> stakeholder, viewpoint |-> viewpoint,
     concerns |-> concerns, opportunities |-> opportunities,
     questions |-> questions]

(***************************************************************************)
(* InquiryGenerator (lines 90-457).                                        *)
(***************************************************************************)
essential_templates(topic) ==
    << <<"What is the fundamental nature of ", topic, "?">>,
       <<"Why does ", topic, " matter in our current context?">>,
       <<"How does ", topic, " challenge our existing assumptions?">>,
       <<"What would change if we fully understood ", topic, "?">>,
       <<"What questions does ", topic, " raise that we haven't considered?">> >>

EssentialQuestion(topic, context, template, i) ==
    Question(template, QuestionType.ESSENTIAL, InquiryDepth.ANALYTICAL,
             context.value,
             << <<"How does this connect to your personal experience?">>,
                <<"What evidence supports or challenges this perspective?">>,
                <<"What would someone from a different background think?">> >>,
             <<"Essential question ", Str(i),
               " designed to explore fundamental aspects of ", topic>>)

generate_essential_questions(topic, context, depth) ==
    LET sliced == SlicePrefix(essential_templates(topic), depth)
    IN  [i \in 1..Len(sliced) |-> EssentialQuestion(topic, context, sliced[i], i)]

dialectical_themes ==
    << <<"individual", "collective">>,
       <<"tradition", "innovation">>,
       <<"efficiency", "equity">>,
       <<"freedom", "responsibility">>,
       <<"local", "global">> >>

DialecticalQuestion(topic, context, theme, role) ==
    Question(<<"How does ", topic, " serve ", theme, " interests and values?">>,
             QuestionType.DIALECTICAL, InquiryDepth.ANALYTICAL,
             context.value,
             << <<"What evidence supports this ", theme, " perspective?">>,
                <<"Who benefits most from this ", theme, " approach?">>,
                <<"What are the limitations of focusing solely on ", theme,
                  " aspects?">> >>,
             <<"Dialectical ", role, " exploring ", theme, " dimension of ", topic>>)

\* Mutant: both questions of a pair are built from the thesis theme.
generate_dialectical_pairs_SameTheme(topic, context, depth) ==
    LET sliced == SlicePrefix(dialectical_themes, depth)
    IN  [i \in 1..Len(sliced) |->
            << DialecticalQuestion(topic, context, sliced[i][1], "thesis"),
               DialecticalQuestion(topic, context, sliced[i][1], "antithesis") >>]

generate_dialectical_pairs(topic, context, depth) ==
    LET sliced == SlicePrefix(dialectical_themes, depth)
    IN  [i \in 1..Len(sliced) |->
            << DialecticalQuestion(topic, context, sliced[i][1], "thesis"),
               DialecticalQuestion(topic, context, sliced[i][2], "antithesis") >>]

\* Mutant: one synthesis question for each dialectical pair, three at most.
generate_synthesis_questions_PerPair(topic, essential_questions, dialectical_pairs) ==
    SlicePrefix(
    << Question(<<"How can we integrate multiple perspectives on ", topic,
                  " into a coherent understanding?">>,
                QuestionType.SYNTHETIC, InquiryDepth.TRANSFORMATIVE, "synthesis",
                << <<"What common ground exists across different viewpoints?">>,
                   <<"Where are the irreconcilable differences, and how do we navigate them?">>,
                   <<"What new possibilities emerge from this integration?">> >>,
                <<"Synthesis question for integrating multiple perspectives">>),
       Question(<<"What would a truly innovative approach to ", topic, " look like?">>,
                QuestionType.EMERGENT, InquiryDepth.EMERGENT, "innovation",
                << <<"What assumptions would we need to let go of?">>,
                   <<"What would success look like in this new approach?">>,
                   <<"How would we know if we're moving in the right direction?">> >>,
                <<"Emergent question for innovative thinking">>),
       Question(<<"How does our understanding of ", topic,
                  " change our responsibility to act?">>,
                QuestionType.PRACTICAL, InquiryDepth.TRANSFORMATIVE, "action",
                << <<"What are the ethical implications of what we've learned?">>,
                   <<"What would we do differently based on this understanding?">>,
                   <<"How do we maintain accountability to these insights?">> >>,
                <<"Action-oriented synthesis question">>) >>,
        Len(dialectical_pairs))

generate_synthesis_questions(topic, essential_questions, dialectical_pairs) ==
    << Question(<<"How can we integrate multiple perspectives on ", topic,
                  " into a coherent understanding?">>,
                QuestionType.SYNTHETIC, InquiryDepth.TRANSFORMATIVE, "synthesis",
                << <<"What common ground exists across different viewpoints?">>,
                   <<"Where are the irreconcilable differences, and how do we navigate them?">>,
                   <<"What new possibilities emerge from this integration?">> >>,
                <<"Synthesis question for integrating multiple perspectives">>),
       Question(<<"What would a truly innovative approach to ", topic, " look like?">>,
                QuestionType.EMERGENT, InquiryDepth.EMERGENT, "innovation",
                << <<"What assumptions would we need to let go of?">>,
                   <<"What would success look like in this new approach?">>,
                   <<"How would we know if we're moving in the right direction?">> >>,
                <<"Emergent question for innovative thinking">>),
       Question(<<"How does our understanding of ", topic,
                  " change our responsibility to act?">>,
                QuestionType.PRACTICAL, InquiryDepth.TRANSFORMATIVE, "action",
                << <<"What are the ethical implications of what we've learned?">>,
                   <<"What would we do differently based on this understanding?">>,
                   <<"How do we maintain accountability to these insights?">> >>,
                <<"Action-oriented synthesis question">>) >>

\* the table is keyed by the LearningContext members
practical_templates(topic) ==
    (LearningContext.PERSONAL :>
        << <<"How can I apply insights about ", topic, " in my daily life?">>,
           <<"What changes would I need to make to align with my understanding of ", topic, "?">>,
           <<"How can I continue learning about ", topic, " in meaningful ways?">> >>)
 @@ (LearningContext.EDUCATIONAL :>
        << <<"How can we design learning experiences that help others understand ", topic, "?">>,
           <<"What assessment methods would capture deep understanding of ", topic, "?">>,
           <<"How can we make ", topic, " relevant and engaging for diverse learners?">> >>)
 @@ (LearningContext.ORGANIZATIONAL :>
        << <<"How can our organization implement insights about ", topic, "?">>,
           <<"What systems and structures need to change to support ", topic, "?">>,
           <<"How can we measure progress and impact related to ", topic, "?">> >>)
 @@ (LearningContext.SOCIAL :>
        << <<"How can communities work together to address ", topic, "?">>,
           <<"What policies and practices would support positive change around ", topic, "?">>,
           <<"How can we engage diverse stakeholders in conversations about ", topic, "?">> >>)
 @@ (LearningContext.RESEARCH :>
        << <<"What research questions about ", topic, " remain unexplored?">>,
           <<"How can we study ", topic, " in ways that honor its complexity?">>,
           <<"What methodologies would best capture the nuances of ", topic, "?">> >>)

PracticalQuestion(context, template) ==
    Question(template, QuestionType.PRACTICAL, InquiryDepth.ANALYTICAL,
             context.value,
             << <<"What would be the first step?">>,
                <<"What resources and support would be needed?">>,
                <<"How would we know if we're making progress?">> >>,
             <<"Practical application question for ", context.value, " context">>)

\* Mutant: the table has no RESEARCH entry, so that context takes the default.
practical_lookup_NoResearchEntry(topic, context) ==
    IF context = LearningContext.RESEARCH
    THEN practical_templates(topic)[LearningContext.PERSONAL]
    ELSE Get(practical_templates(topic), context,
             practical_templates(topic)[LearningContext.PERSONAL])

practical_lookup(topic, context) ==
    Get(practical_templates(topic), context,
        practical_templates(topic)[LearningContext.PERSONAL])

generate_practical_questions(topic, context, depth) ==
    LET templates == practical_lookup(topic, context)
        sliced == SlicePrefix(templates, depth)
    IN  [i \in 1..Len(sliced) |-> PracticalQuestion(context, sliced[i])]

design_pathway_steps(essential_questions, dialectical_pairs, synthesis_questions) ==
    << <<"Begin with personal reflection on essential questions">>,
       <<"Explore multiple perspectives through dialectical inquiry">>,
       <<"Engage in dialogue with others holding different viewpoints">>,
       <<"Seek synthesis and integration of diverse perspectives">>,
       <<"Apply insights through practical experimentation">>,
       <<"Reflect on learning and identify next questions">>,
       <<"Share insights with learning community">>,
       <<"Iterate and deepen understanding">> >>

\* Mutant: the transformative question carries the depth level of the emergent one.
create_depth_progression_Mislabelled(topic, context, depth) ==
    [surface |->
        << Question(<<"What do I already know about ", topic, "?">>,
                    QuestionType.ESSENTIAL, InquiryDepth.SURFACE, context.value,
                    << <<"Where did this knowledge come from?">> >>,
                    <<"Surface level exploration">>) >>,
     analytical |->
        << Question(<<"How do different experts or authorities view ", topic, "?">>,
                    QuestionType.PERSPECTIVE, InquiryDepth.ANALYTICAL, context.value,
                    << <<"What are the underlying assumptions in each view?">> >>,
                    <<"Analytical comparison of perspectives">>) >>,
     transformative |->
        << Question(<<"How does deep understanding of ", topic,
                      " change how I see the world?">>,
                    QuestionType.SYNTHETIC, InquiryDepth.EMERGENT, context.value,
                    << <<"What beliefs or assumptions am I now questioning?">> >>,
                    <<"Transformative reflection on worldview changes">>) >>,
     emergent |->
        << Question(<<"What new questions about ", topic,
                      " are emerging that nobody has asked before?">>,
                    QuestionType.EMERGENT, InquiryDepth.EMERGENT, context.value,
                    << <<"How might these questions reshape our understanding?">> >>,
                    <<"Emergent inquiry generation">>) >>]

create_depth_progression(topic, context, depth) ==
    [surface |->
        << Question(<<"What do I already know about ", topic, "?">>,
                    QuestionType.ESSENTIAL, InquiryDepth.SURFACE, context.value,
                    << <<"Where did this knowledge come from?">> >>,
                    <<"Surface level exploration">>) >>,
     analytical |->
        << Question(<<"How do different experts or authorities view ", topic, "?">>,
                    QuestionType.PERSPECTIVE, InquiryDepth.ANALYTICAL, context.value,
                    << <<"What are the underlying assumptions in each view?">> >>,
                    <<"Analytical comparison of perspectives">>) >>,
     transformative |->
        << Question(<<"How does deep understanding of ", topic,
                      " change how I see the world?">>,
                    QuestionType.SYNTHETIC, InquiryDepth.TRANSFORMATIVE, context.value,
                    << <<"What beliefs or assumptions am I now questioning?">> >>,
                    <<"Transformative reflection on worldview changes">>) >>,
     emergent |->
        << Question(<<"What new questions about ", topic,
                      " are emerging that nobody has asked before?">>,
                    QuestionType.EMERGENT, InquiryDepth.EMERGENT, context.value,
                    << <<"How might these questions reshape our understanding?">> >>,
                    <<"Emergent inquiry generation">>) >>]

\* lines 120-146: the InquirySequenceResult of one call
InquirySequenceResult(topic, context, depth) ==
    LET essential_questions == generate_essential_questions(topic, context, depth)
        dialectical_pairs == generate_dialectical_pairs(topic, context, depth)
        synthesis_questions ==
            generate_synthesis_questions(topic, essential_questions, dialectical_pairs)
    IN  [topic |-> topic,
         essential_questions |-> essential_questions,
         dialectical_pairs |-> dialectical_pairs,
         synthesis_questions |-> synthesis_questions,
         practical_applications |-> generate_practical_questions(topic, context, depth),
         learning_pathway |->
            design_pathway_steps(essential_questions, dialectical_pairs, synthesis_questions),
         depth_progression |-> create_depth_progression(topic, context, depth)]

\* an entry of a history list (lines 149-153, 514-518); the timestamp is the
\* wall clock's and is left out
HistoryEntry(context, res) == [context |-> context.value, result |-> res]

(***************************************************************************)
(* PerspectiveRotator (lines 460-683).                                     *)
(***************************************************************************)
stakeholder_sets ==
    (LearningContext.EDUCATIONAL :>
        <<"students", "teachers", "administrators", "parents", "community members",
          "policymakers", "researchers", "industry partners">>)
 @@ (LearningContext.ORGANIZATIONAL :>
        <<"employees", "managers", "customers", "shareholders", "competitors",
          "regulators", "communities", "suppliers">>)
 @@ (LearningContext.SOCIAL :>
        <<"citizens", "government", "activists", "businesses", "media",
          "researchers", "international observers", "future generations">>)
 @@ (LearningContext.PERSONAL :>
        <<"current self", "future self", "family", "friends", "mentors",
          "critics", "strangers", "cultural background">>)
 @@ (LearningContext.RESEARCH :>
        <<"researchers", "participants", "funders", "peer reviewers", "practitioners",
          "policymakers", "affected communities", "skeptics">>)

\* Mutant: the context is ignored and the PERSONAL list always used.
stakeholder_lookup_AlwaysPersonal(context) ==
    stakeholder_sets[LearningContext.PERSONAL]

stakeholder_lookup(context) ==
    Get(stakeholder_sets, context, stakeholder_sets[LearningContext.PERSONAL])

StakeholderPerspective(topic, stakeholder) ==
    Perspective(stakeholder,
        <<"From a ", stakeholder, " perspective, ", topic,
          " represents both opportunities and challenges for our interests and values.">>,
        << <<"How will ", topic, " affect our core interests?">>,
           <<"What risks does ", topic, " pose to our wellbeing?">>,
           <<"How can we have a voice in decisions about ", topic, "?">> >>,
        << <<"How can ", topic, " advance our goals?">>,
           <<"What new possibilities does ", topic, " create?">>,
           <<"How can we contribute positively to ", topic, "?">> >>,
        << <<"What would ", stakeholder, " most want to know about ", topic, "?">>,
           <<"What would ", stakeholder, " most fear about ", topic, "?">>,
           <<"What would ", stakeholder, " most hope for regarding ", topic, "?">> >>)

generate_stakeholder_perspectives(topic, count, context) ==
    LET stakeholder_list == stakeholder_lookup(context)
        selected_stakeholders == SlicePrefix(stakeholder_list, count)
    IN  [i \in 1..Len(selected_stakeholders) |->
            StakeholderPerspective(topic, selected_stakeholders[i])]

\* Mutant: one insight for each perspective that was selected.
generate_synthesis_insights_PerPerspective(perspectives, topic) ==
    [i \in 1..Len(perspectives) |->
        <<perspectives[i].stakeholder, " share common concerns about transparency and fairness in ",
          topic>>]

generate_synthesis_insights(perspectives, topic) ==
    << <<"Multiple stakeholders share common concerns about transparency and fairness in ", topic>>,
       <<"Different perspectives reveal complementary rather than competing interests in ", topic>>,
       <<"Successful implementation of ", topic,
         " requires addressing diverse stakeholder needs simultaneously">>,
       <<"The complexity of ", topic, " becomes clearer when viewed through multiple lenses">>,
       <<"Creative solutions emerge when we consider how ", topic,
         " can serve multiple stakeholder groups">> >>

generate_bridging_questions(perspectives, topic) ==
    << Question(<<"What shared values can unite different stakeholders around ", topic, "?">>,
                QuestionType.SYNTHETIC, InquiryDepth.TRANSFORMATIVE, "bridging",
                << <<"Where do stakeholder interests naturally align?">>,
                   <<"What would win-win solutions look like?">>,
                   <<"How can we build on common ground?">> >>,
                <<"Question designed to find shared values across perspectives">>),
       Question(<<"How can we address the legitimate concerns of each stakeholder group regarding ",
                  topic, "?">>,
                QuestionType.PRACTICAL, InquiryDepth.ANALYTICAL, "problem-solving",
                << <<"What would each group need to feel heard and respected?">>,
                   <<"Where are the non-negotiable boundaries for each group?">>,
                   <<"What creative compromises might be possible?">> >>,
                <<"Question focused on inclusive problem-solving">>) >>

identify_collaboration_opportunities(perspectives) ==
    << <<"Shared learning initiatives where stakeholders educate each other">>,
       <<"Joint problem-solving sessions focused on common challenges">>,
       <<"Collaborative pilot projects that test solutions together">>,
       <<"Cross-stakeholder advisory groups for ongoing dialogue">>,
       <<"Resource sharing arrangements that benefit multiple groups">> >>

identify_potential_conflicts(perspectives) ==
    << <<"Resource allocation priorities may differ significantly between groups">>,
       <<"Timeline preferences may conflict between stakeholders with different urgencies">>,
       <<"Risk tolerance levels vary substantially across stakeholder groups">>,
       <<"Cultural values and approaches to change may clash">>,
       <<"Information sharing preferences may create transparency tensions">> >>

\* lines 490-511: the PerspectiveRotationResult of one call
PerspectiveRotationResult(topic, stakeholders, context) ==
    LET perspectives == generate_stakeholder_perspectives(topic, stakeholders, context)
    IN  [topic |-> topic,
         perspectives |-> perspectives,
         synthesis_insights |-> generate_synthesis_insights(perspectives, topic),
         bridging_questions |-> generate_bridging_questions(perspectives, topic),
         collaborative_opportunities |-> identify_collaboration_opportunities(perspectives),
         potential_conflicts |-> identify_potential_conflicts(perspectives)]

(***************************************************************************)
(* LearningPathwayDesigner (lines 686-955).  The designer keeps no history *)
(* list: __init__ (lines 692-694) sets only two template tables.           *)
(***************************************************************************)
\* Mutant: the elif joins its two tests with "and".
assess_learner_readiness_And(profile, topic) ==
    LET experience == Get(profile, "experience_level", "beginner")
        motivation == Get(profile, "motivation_level", "medium")
    IN  IF experience = "advanced" /\ motivation = "high" THEN "advanced"
        ELSE IF experience = "intermediate" /\ motivation = "high" THEN "intermediate"
        ELSE "beginner"

\* Mutant: a learner with limited time is never classified "advanced".
assess_learner_readiness_TimeAware(profile, topic) ==
    LET experience == Get(profile, "experience_level", "beginner")
        motivation == Get(profile, "motivation_level", "medium")
        time_commitment == Get(profile, "time_available", "limited")
    IN  IF experience = "advanced" /\ motivation = "high" /\ time_commitment # "limited"
            THEN "advanced"
        ELSE IF experience = "intermediate" \/ motivation = "high" THEN "intermediate"
        ELSE "beginner"

assess_learner_readiness(profile, topic) ==
    LET experience == Get(profile, "experience_level", "beginner")
        motivation == Get(profile, "motivation_level", "medium")
        time_commitment == Get(profile, "time_available", "limited")
    IN  IF experience = "advanced" /\ motivation = "high" THEN "advanced"
        ELSE IF experience = "intermediate" \/ motivation = "high" THEN "intermediate"
        ELSE "beginner"

base_stages ==
    << [name |-> <<"Exploration and Orientation">>,
        focus |-> <<"Understanding the landscape and developing initial questions">>,
        activities |->
            << <<"Personal reflection on existing knowledge and experiences">>,
               <<"Exploration of diverse perspectives and approaches">>,
               <<"Generation of initial questions and learning goals">> >>,
        duration |-> <<"1-2 weeks">>],
       [name |-> <<"Deep Inquiry and Analysis">>,
        focus |-> <<"Systematic investigation through structured questioning">>,
        activities |->
            << <<"Dialectical exploration of different viewpoints">>,
               <<"Research and evidence gathering">>,
               <<"Dialogue with experts and peers">> >>,
        duration |-> <<"2-3 weeks">>],
       [name |-> <<"Synthesis and Integration">>,
        focus |-> <<"Connecting insights and developing understanding">>,
        activities |->
            << <<"Pattern recognition and connection making">>,
               <<"Integration of multiple perspectives">>,
               <<"Development of personal frameworks and models">> >>,
        duration |-> <<"1-2 weeks">>],
       [name |-> <<"Application and Experimentation">>,
        focus |-> <<"Testing understanding through practical application">>,
        activities |->
            << <<"Design and implementation of practical experiments">>,
               <<"Real-world application of insights">>,
               <<"Collaboration on meaningful projects">> >>,
        duration |-> <<"2-3 weeks">>],
       [name |-> <<"Reflection and Evolution">>,
        focus |-> <<"Learning from experience and planning next steps">>,
        activities |->
            << <<"Comprehensive reflection on learning journey">>,
               <<"Assessment of growth and change">>,
               <<"Identification of new questions and directions">> >>,
        duration |-> <<"1 week">>] >>

\* stage[key] = value for each key of fields: sets the key, replacing an old value
SetItems(stage, fields) == fields @@ stage

\* Mutant: every level but "advanced" gets the beginner's fields.
stage_overlay_ElseBeginner(readiness_level) ==
    IF readiness_level = "advanced"
        THEN [complexity |-> <<"high">>, independence |-> <<"maximum">>]
        ELSE [support_level |-> <<"high">>, scaffolding |-> <<"extensive">>]

\* lines 814-823: the fields the readiness level sets on every stage
stage_overlay(readiness_level) ==
    IF readiness_level = "beginner"
        THEN [support_level |-> <<"high">>, scaffolding |-> <<"extensive">>]
    ELSE IF readiness_level = "advanced"
        THEN [complexity |-> <<"high">>, independence |-> <<"maximum">>]
    ELSE << >>

\* Mutant: an advanced learner skips the first stage.
design_learning_stages_SkipForAdvanced(topic, readiness_level, context) ==
    LET stages == [i \in 1..Len(base_stages) |->
                     SetItems(base_stages[i], stage_overlay(readiness_level))]
    IN  IF readiness_level = "advanced" THEN Tail(stages) ELSE stages

design_learning_stages(topic, readiness_level, context) ==
    [i \in 1..Len(base_stages) |->
        SetItems(base_stages[i], stage_overlay(readiness_level))]

design_assessments(topic, stages, context) ==
    << [name |-> <<"Inquiry Portfolio">>,
        description |-> <<"Collection of questions, explorations, and reflections">>,
        type |-> <<"formative">>, frequency |-> <<"ongoing">>],
       [name |-> <<"Perspective Analysis">>,
        description |-> <<"Demonstration of multi-perspective understanding">>,
        type |-> <<"formative">>, frequency |-> <<"mid-pathway">>],
       [name |-> <<"Synthesis Project">>,
        description |-> <<"Creative integration of learning into meaningful output">>,
        type |-> <<"summative">>, frequency |-> <<"end of pathway">>],
       [name |-> <<"Learning Reflection">>,
        description |-> <<"Deep reflection on transformation and growth">>,
        type |-> <<"reflective">>, frequency |-> <<"end of pathway">>] >>

recommend_resources(topic, profile, context) ==
    << [type |-> <<"books">>,
        recommendations |-> <<"Foundational texts and diverse perspectives on the topic">>,
        purpose |-> <<"Building knowledge base and exposure to different viewpoints">>],
       [type |-> <<"experts">>,
        recommendations |-> <<"Practitioners, researchers, and thought leaders in the field">>,
        purpose |-> <<"Learning from experience and current thinking">>],
       [type |-> <<"communities">>,
        recommendations |-> <<"Learning communities and discussion groups">>,
        purpose |-> <<"Dialogue and collaborative exploration">>],
       [type |-> <<"experiences">>,
        recommendations |-> <<"Direct experiences and immersive opportunities">>,
        purpose |-> <<"Embodied learning and practical understanding">>] >>

design_reflection_protocols(topic, stages) ==
    << [stage |-> <<"weekly">>,
        questions |->
            << <<"What new questions emerged this week?">>,
               <<"How has my understanding shifted?">>,
               <<"What challenged my assumptions?">>,
               <<"What do I want to explore next?">> >>],
       [stage |-> <<"milestone">>,
        questions |->
            << <<"How has my relationship to this topic evolved?">>,
               <<"What patterns am I beginning to see?">>,
               <<"Where am I feeling stuck, and what might help?">>,
               <<"How is this learning connecting to other areas of my life?">> >>],
       [stage |-> <<"completion">>,
        questions |->
            << <<"What are the most significant insights from this learning journey?">>,
               <<"How have I changed as a result of this exploration?">>,
               <<"What questions will I continue to carry forward?">>,
               <<"How will I apply what I've learned?">> >>] >>

define_success_indicators(topic, context) ==
    << <<"Ability to ask increasingly sophisticated questions about the topic">>,
       <<"Demonstration of multi-perspective understanding">>,
       <<"Evidence of personal transformation or growth">>,
       <<"Application of insights in real-world contexts">>,
       <<"Continued curiosity and motivation for further learning">>,
       <<"Contribution to others' learning and understanding">> >>

\* lines 714-739: the pathway dict of one call
LearningPathway(topic, learner_profile, context) ==
    LET readiness_level == assess_learner_readiness(learner_profile, topic)
        learning_stages == design_learning_stages(topic, readiness_level, context)
    IN  [topic |-> topic,
         learner_profile |-> learner_profile,
         readiness_level |-> readiness_level,
         learning_stages |-> learning_stages,
         assessments |-> design_assessments(topic, learning_stages, context),
         resources |-> recommend_resources(topic, learner_profile, context),
         reflections |-> design_reflection_protocols(topic, learning_stages),
         estimated_duration |-> <<Str(Len(learning_stages) * 2), " weeks">>,
         success_indicators |-> define_success_indicators(topic, context)]

(***************************************************************************)
(* Inputs of the top-level operations.                                     *)
(***************************************************************************)
Depths == (0 - NegCount) .. MaxDepth
StakeholderCounts == (0 - NegCount) .. MaxCount

ProfileKeys == {"experience_level", "motivation_level", "time_available", "learning_style"}

ProfileValues(key) ==
    CASE key = "experience_level" -> {"beginner", "intermediate", "advanced"}
      [] key = "motivation_level" -> {"low", "medium", "high"}
      [] key = "time_available" -> {"limited", "moderate"}
      [] key = "learning_style" -> {"experiential"}

\* every mapping of some of the keys, the empty mapping included
Profiles ==
    UNION { { p \in [K -> UNION {ProfileValues(k) : k \in ProfileKeys}] :
                \A k \in K : p[k] \in ProfileValues(k) } : K \in SUBSET ProfileKeys }

Engines == {"InquiryGenerator", "PerspectiveRotator", "LearningPathwayDesigner"}

Invoked == calls["InquiryGenerator"].invoked + calls["PerspectiveRotator"].invoked
            + calls["LearningPathwayDesigner"].invoked

Count(engine, returned) ==
    [calls EXCEPT ![engine] =
        [invoked |-> @.invoked + 1,
         returned |-> IF returned THEN @.returned + 1 ELSE @.returned]]

\* an invocation as its caller sees it: the arguments passed, and the value
\* returned (None when it raised)
Seen(invocation, returned) == [call |-> invocation, result |-> returned]

\* the history list an engine keeps; the designer has none
HistoryOf(engine) ==
    CASE engine = "InquiryGenerator" -> inquiry_history
      [] engine = "PerspectiveRotator" -> rotation_history
      [] engine = "LearningPathwayDesigner" -> << >>

\* Threads that invoke generate_inquiry_sequence on the one generator.  A
\* thread holds the invocation's position and its local variables.
Threads == 1 .. MaxThreads

Idle == [pc |-> "idle"]

(***************************************************************************)
(* Several engines of each class (the constructors of lines 96-99, 466-468 *)
(* and 692-694).  Every attribute is set on self by __init__, none is a    *)
(* class attribute.                                                        *)
(***************************************************************************)
\* lines 435-457
initialize_question_templates ==
    [essential |-> <<"What is the fundamental nature of {}?", "Why does {} matter?",
                     "How does {} connect to larger patterns?",
                     "What would change if {} were different?",
                     "What questions does {} raise?">>,
     dialectical |-> <<"How does {} serve {} interests?", "What tensions exist within {}?",
                       "Who benefits and who is marginalized by {}?",
                       "What would the opposite of {} look like?">>,
     practical |-> <<"How can we apply {} in real situations?",
                     "What would it mean to live according to {}?",
                     "How can we measure progress with {}?",
                     "What obstacles prevent {} from being realized?">>]

\* lines 668-683
initialize_stakeholder_templates ==
    [universal |-> <<"current self", "future self", "family", "community", "society",
                     "environment", "future generations", "global perspective">>,
     organizational |-> <<"employees", "customers", "shareholders", "management",
                          "competitors", "suppliers", "regulators", "community">>,
     educational |-> <<"students", "teachers", "parents", "administrators", "community",
                       "employers", "policymakers", "researchers">>]

\* lines 941-947
initialize_pathway_templates ==
    [stages |-> <<"exploration", "inquiry", "synthesis", "application", "reflection">>,
     activities |-> <<"questioning", "research", "dialogue", "experimentation", "reflection">>,
     assessments |-> <<"portfolio", "project", "presentation", "reflection", "peer_feedback">>]

\* lines 949-955
initialize_assessment_strategies ==
    [formative |-> <<"ongoing questions", "learning journal", "peer dialogue",
                     "mentor check-ins">>,
     summative |-> <<"synthesis project", "presentation", "portfolio", "reflection essay">>,
     authentic |-> <<"real-world application", "community contribution",
                     "mentoring others">>]

\* __init__ of each class: the attributes of a new engine
Construct(cls) ==
    CASE cls = "InquiryGenerator" ->
            [question_templates |-> initialize_question_templates,
             history |-> << >>,
             learning_patterns |-> << >>]
      [] cls = "PerspectiveRotator" ->
            [stakeholder_templates |-> initialize_stakeholder_templates,
             history |-> << >>]
      [] cls = "LearningPathwayDesigner" ->
            [pathway_templates |-> initialize_pathway_templates,
             assessment_strategies |-> initialize_assessment_strategies]

Instances == { [cls |-> cls, n |-> n] : cls \in Engines, n \in 1 .. MaxInstances }

InstancesOf(cls) == { self \in Instances : self.cls = cls }

(***************************************************************************)
(* The state machine: engines as constructed, then one action per          *)
(* top-level operation.                                                    *)
(***************************************************************************)
Init ==
    /\ inquiry_history = << >>
    /\ rotation_history = << >>
    /\ call = None
    /\ result = None
    /\ calls = [e \in Engines |-> [invoked |-> 0, returned |-> 0]]
    /\ trace = << >>
    /\ threads = [t \in Threads |-> Idle]
    /\ heap = << >>
    /\ pathways = << >>
    /\ instances = [self \in Instances |-> Construct(self.cls)]
    /\ caller = [invoked |-> 0, self |-> None, op |-> "", passed |-> None,
                 held |-> None, returned |-> None]

\* Mutant: the result is returned but never stored in inquiry_history.
generate_inquiry_sequence_NoAppend(topic, context, depth) ==
    /\ result' = IF HasValue(context)
                 THEN InquirySequenceResult(topic, context, depth)
                 ELSE None
    /\ call' = [op |-> "generate_inquiry_sequence", topic |-> topic,
                context |-> context, depth |-> depth,
                outcome |-> IF HasValue(context) THEN "returned" ELSE "AttributeError"]
    /\ calls' = Count("InquiryGenerator", HasValue(context))
    /\ UNCHANGED <<inquiry_history, rotation_history>>
    /\ trace' = Append(trace, Seen(call', result'))
    /\ UNCHANGED <<threads, heap, pathways, instances, caller>>

\* Mutant: each sequence already in inquiry_history deepens the next one by
\* one level.
generate_inquiry_sequence_Adaptive(topic, context, depth) ==
    /\ IF HasValue(context)
       THEN LET res == InquirySequenceResult(topic, context,
                                             depth + Len(inquiry_history))
            IN  /\ inquiry_history' = Append(inquiry_history, HistoryEntry(context, res))
                /\ result' = res
       ELSE /\ inquiry_history' = inquiry_history
            /\ result' = None
    /\ call' = [op |-> "generate_inquiry_sequence", topic |-> topic,
                context |-> context, depth |-> depth,
                outcome |-> IF HasValue(context) THEN "returned" ELSE "AttributeError"]
    /\ calls' = Count("InquiryGenerator", HasValue(context))
    /\ UNCHANGED rotation_history
    /\ trace' = Append(trace, Seen(call', result'))
    /\ UNCHANGED <<threads, heap, pathways, instances, caller>>

\* lines 101-156.  Line 116 reads context.value before anything is built.
generate_inquiry_sequence(topic, context, depth) ==
    /\ IF HasValue(context)
       THEN LET res == InquirySequenceResult(topic, context, depth)
            IN  /\ inquiry_history' = Append(inquiry_history, HistoryEntry(context, res))
                /\ result' = res
       ELSE /\ inquiry_history' = inquiry_history
            /\ result' = None
    /\ call' = [op |-> "generate_inquiry_sequence", topic |-> topic,
                context |-> context, depth |-> depth,
                outcome |-> IF HasValue(context) THEN "returned" ELSE "AttributeError"]
    /\ calls' = Count("InquiryGenerator", HasValue(context))
    /\ UNCHANGED rotation_history
    /\ trace' = Append(trace, Seen(call', result'))
    /\ UNCHANGED <<threads, heap, pathways, instances, caller>>

\* Mutant: the new entry is put at the head of rotation_history.
rotate_perspectives_Prepend(topic, stakeholders, context) ==
    /\ IF HasValue(context)
       THEN LET res == PerspectiveRotationResult(topic, stakeholders, context)
            IN  /\ rotation_history' = <<HistoryEntry(context, res)>> \o rotation_history
                /\ result' = res
       ELSE /\ rotation_history' = rotation_history
            /\ result' = None
    /\ call' = [op |-> "rotate_perspectives", topic |-> topic,
                context |-> context, stakeholders |-> stakeholders,
                outcome |-> IF HasValue(context) THEN "returned" ELSE "AttributeError"]
    /\ calls' = Count("PerspectiveRotator", HasValue(context))
    /\ UNCHANGED inquiry_history
    /\ trace' = Append(trace, Seen(call', result'))
    /\ UNCHANGED <<threads, heap, pathways, instances, caller>>

\* lines 470-521.  Line 486 reads context.value before anything is built.
rotate_perspectives(topic, stakeholders, context) ==
    /\ IF HasValue(context)
       THEN LET res == PerspectiveRotationResult(topic, stakeholders, context)
            IN  /\ rotation_history' = Append(rotation_history, HistoryEntry(context, res))
                /\ result' = res
       ELSE /\ rotation_history' = rotation_history
            /\ result' = None
    /\ call' = [op |-> "rotate_perspectives", topic |-> topic,
                context |-> context, stakeholders |-> stakeholders,
                outcome |-> IF HasValue(context) THEN "returned" ELSE "AttributeError"]
    /\ calls' = Count("PerspectiveRotator", HasValue(context))
    /\ UNCHANGED inquiry_history
    /\ trace' = Append(trace, Seen(call', result'))
    /\ UNCHANGED <<threads, heap, pathways, instances, caller>>

\* Mutant: the five stage dicts are built once and kept as a template; every
\* call sets its overlay on them and returns them.
new_stage_records_SharedTemplate(objects, topic, readiness_level, context) ==
    LET template == IF objects = << >> THEN base_stages ELSE objects
    IN  [heap |-> [a \in 1..Len(template) |->
                        SetItems(template[a], stage_overlay(readiness_level))],
         refs |-> [i \in 1..Len(template) |-> i]]

\* lines 758-825 as they act on objects: the list literal of lines 760-811
\* creates five new dicts on every call, the loop of lines 813-823 updates
\* those dicts in place, and the list of them is returned.
new_stage_records(objects, topic, readiness_level, context) ==
    LET stages == design_learning_stages(topic, readiness_level, context)
    IN  [heap |-> objects \o stages,
         refs |-> [i \in 1..Len(stages) |-> Len(objects) + i]]

\* what the stage dicts at the given addresses hold
Deref(objects, refs) == [i \in 1..Len(refs) |-> objects[refs[i]]]

\* lines 714-717 of a design that returns: the stage dicts come into being
\* and the caller keeps the returned pathway, which refers to them
Allocate(returns, topic, learner_profile, context) ==
    IF returns
    THEN LET readiness_level == assess_learner_readiness(learner_profile, topic)
             records == new_stage_records(heap, topic, readiness_level, context)
         IN  /\ heap' = records.heap
             /\ pathways' = Append(pathways,
                    [topic |-> topic, context |-> context,
                     readiness_level |-> readiness_level,
                     learning_stages |-> records.refs,
                     returned |-> Deref(records.heap, records.refs)])
    ELSE UNCHANGED <<heap, pathways>>

\* Mutant: the profile fields are read with profile[key], which raises
\* KeyError for a profile without experience_level or motivation_level.
design_learning_pathway_Subscript(topic, learner_profile, context) ==
    LET outcome ==
            IF ~HasValue(context) THEN "AttributeError"
            ELSE IF {"experience_level", "motivation_level"} \subseteq DOMAIN learner_profile
                 THEN "returned" ELSE "KeyError"
    IN  /\ result' = IF outcome = "returned"
                     THEN LearningPathway(topic, learner_profile, context)
                     ELSE None
        /\ call' = [op |-> "design_learning_pathway", topic |-> topic,
                    context |-> context, learner_profile |-> learner_profile,
                    outcome |-> outcome]
        /\ calls' = Count("LearningPathwayDesigner", outcome = "returned")
        /\ Allocate(outcome = "returned", topic, learner_profile, context)
        /\ UNCHANGED <<inquiry_history, rotation_history>>
        /\ trace' = Append(trace, Seen(call', result'))
        /\ UNCHANGED <<threads, instances, caller>>

\* lines 696-742.  Line 711 reads context.value before anything is built.
design_learning_pathway(topic, learner_profile, context) ==
    /\ result' = IF HasValue(context)
                 THEN LearningPathway(topic, learner_profile, context)
                 ELSE None
    /\ call' = [op |-> "design_learning_pathway", topic |-> topic,
                context |-> context, learner_profile |-> learner_profile,
                outcome |-> IF HasValue(context) THEN "returned" ELSE "AttributeError"]
    /\ calls' = Count("LearningPathwayDesigner", HasValue(context))
    /\ Allocate(HasValue(context), topic, learner_profile, context)
    /\ UNCHANGED <<inquiry_history, rotation_history>>
    /\ trace' = Append(trace, Seen(call', result'))
    /\ UNCHANGED <<threads, instances, caller>>

\* one more invocation while fewer than limit were made, its arguments drawn
\* from the given sets
Invoke(limit, topics, contexts, depths, counts, profiles) ==
    \/ /\ Invoked < limit
       /\ \E topic \in topics, context \in contexts, depth \in depths :
            generate_inquiry_sequence(topic, context, depth)
    \/ /\ Invoked < limit
       /\ \E topic \in topics, context \in contexts, stakeholders \in counts :
            rotate_perspectives(topic, stakeholders, context)
    \/ /\ Invoked < limit
       /\ \E topic \in topics, context \in contexts, learner_profile \in profiles :
            design_learning_pathway(topic, learner_profile, context)

\* Sessions: up to MaxCalls invocations, in any order, on one generator, one
\* rotator and one designer.
SessionTopics == {"AI in Education"}

\* the default context, another context, and the two unknown ones
SessionContexts ==
    {LearningContext.PERSONAL, LearningContext.ORGANIZATIONAL} \cup UnknownContexts

SessionArgs == (0 - 1) .. MaxSessionArg

\* one profile per readiness level
SessionProfiles ==
    { << >>,
      [experience_level |-> "intermediate"],
      [experience_level |-> "advanced", motivation_level |-> "high"] }

Next ==
    Invoke(MaxCalls, SessionTopics, SessionContexts, SessionArgs, SessionArgs,
           SessionProfiles)

Spec == Init /\ [][Next]_vars

\* A single invocation on engines as constructed, over the whole input space.
\* No handler reads a history list, so what an invocation returns is decided
\* by its arguments.
FirstCall == Invoke(1, Topics, Contexts, Depths, StakeholderCounts, Profiles)

SpecCall == Init /\ [][FirstCall]_vars

(***************************************************************************)
(* generate_inquiry_sequence statement by statement (lines 114-156), for   *)
(* invocations that run at the same time on one generator.  Each statement *)
(* is a step; the steps of different threads interleave in any order.      *)
(* list.append is a single step: the interpreter runs it atomically.       *)
(***************************************************************************)
ConcurrentArgs ==
    { [topic |-> "AI in Education", context |-> LearningContext.PERSONAL, depth |-> 1],
      [topic |-> "AI in Education", context |-> LearningContext.ORGANIZATIONAL, depth |-> 2] }

At(t, pc) == threads[t].pc = pc

Goto(t, pc, locals) == threads' = [threads EXCEPT ![t] = locals @@ [pc |-> pc] @@ @]

SharedUnchanged == UNCHANGED <<inquiry_history, rotation_history>>

SessionUnchanged == UNCHANGED <<call, result, calls, trace, heap, pathways, instances, caller>>

\* lines 101-118: the call binds its arguments and prints the banner
thread_begin(t, args) ==
    /\ At(t, "idle")
    /\ threads' = [threads EXCEPT ![t] = [pc |-> "essential"] @@ args]
    /\ SharedUnchanged /\ SessionUnchanged

\* line 121
thread_essential(t) ==
    /\ At(t, "essential")
    /\ Goto(t, "dialectical",
            [essential_questions |->
                generate_essential_questions(threads[t].topic, threads[t].context,
                                             threads[t].depth)])
    /\ SharedUnchanged /\ SessionUnchanged

\* line 124
thread_dialectical(t) ==
    /\ At(t, "dialectical")
    /\ Goto(t, "synthesis",
            [dialectical_pairs |->
                generate_dialectical_pairs(threads[t].topic, threads[t].context,
                                           threads[t].depth)])
    /\ SharedUnchanged /\ SessionUnchanged

\* line 127
thread_synthesis(t) ==
    /\ At(t, "synthesis")
    /\ Goto(t, "practical",
            [synthesis_questions |->
                generate_synthesis_questions(threads[t].topic,
                                             threads[t].essential_questions,
                                             threads[t].dialectical_pairs)])
    /\ SharedUnchanged /\ SessionUnchanged

\* line 130
thread_practical(t) ==
    /\ At(t, "practical")
    /\ Goto(t, "pathway",
            [practical_applications |->
                generate_practical_questions(threads[t].topic, threads[t].context,
                                             threads[t].depth)])
    /\ SharedUnchanged /\ SessionUnchanged

\* line 133
thread_pathway(t) ==
    /\ At(t, "pathway")
    /\ Goto(t, "progression",
            [learning_pathway |->
                design_pathway_steps(threads[t].essential_questions,
                                     threads[t].dialectical_pairs,
                                     threads[t].synthesis_questions)])
    /\ SharedUnchanged /\ SessionUnchanged

\* line 136
thread_progression(t) ==
    /\ At(t, "progression")
    /\ Goto(t, "result",
            [depth_progression |->
                create_depth_progression(threads[t].topic, threads[t].context,
                                         threads[t].depth)])
    /\ SharedUnchanged /\ SessionUnchanged

\* lines 138-146
thread_result(t) ==
    /\ At(t, "result")
    /\ Goto(t, "append",
            [result |->
                [topic |-> threads[t].topic,
                 essential_questions |-> threads[t].essential_questions,
                 dialectical_pairs |-> threads[t].dialectical_pairs,
                 synthesis_questions |-> threads[t].synthesis_questions,
                 practical_applications |-> threads[t].practical_applications,
                 learning_pathway |-> threads[t].learning_pathway,
                 depth_progression |-> threads[t].depth_progression]])
    /\ SharedUnchanged /\ SessionUnchanged

\* Mutant: the entry is stored with self.inquiry_history = [entry].
thread_append_Assign(t) ==
    /\ At(t, "append")
    /\ inquiry_history' = <<HistoryEntry(threads[t].context, threads[t].result)>>
    /\ Goto(t, "return", << >>)
    /\ UNCHANGED rotation_history /\ SessionUnchanged

\* lines 149-153
thread_append(t) ==
    /\ At(t, "append")
    /\ inquiry_history' =
            Append(inquiry_history, HistoryEntry(threads[t].context, threads[t].result))
    /\ Goto(t, "return", << >>)
    /\ UNCHANGED rotation_history /\ SessionUnchanged

\* lines 155-156
thread_return(t) ==
    /\ At(t, "return")
    /\ Goto(t, "done", [returned |-> threads[t].result])
    /\ SharedUnchanged /\ SessionUnchanged

NextConcurrent ==
    \/ \E t \in Threads, args \in ConcurrentArgs : thread_begin(t, args)
    \/ \E t \in Threads : thread_essential(t)
    \/ \E t \in Threads : thread_dialectical(t)
    \/ \E t \in Threads : thread_synthesis(t)
    \/ \E t \in Threads : thread_practical(t)
    \/ \E t \in Threads : thread_pathway(t)
    \/ \E t \in Threads : thread_progression(t)
    \/ \E t \in Threads : thread_result(t)
    \/ \E t \in Threads : thread_append(t)
    \/ \E t \in Threads : thread_return(t)

SpecConcurrent == Init /\ [][NextConcurrent]_vars

(***************************************************************************)
(* The three operations as methods of one engine among several.  The       *)
(* history list is the attribute inquiry_history or rotation_history of    *)
(* self; the profile is the caller's dict, passed by reference.            *)
(***************************************************************************)
InstanceContexts == {LearningContext.PERSONAL, LearningContext.ORGANIZATIONAL}

SingleEnginesUnchanged ==
    UNCHANGED <<inquiry_history, rotation_history, call, result, calls, trace, threads,
                heap, pathways>>

\* what the caller of op holds afterwards: for a design the profile as it
\* passed it, the same dict as it is now, and the learner_profile it got back
Calling(self, op, passed, held, returned) ==
    caller' = [invoked |-> caller.invoked + 1, self |-> self, op |-> op,
               passed |-> passed, held |-> held, returned |-> returned]

\* Mutant: inquiry_history is a class attribute, one list for all generators.
generate_inquiry_sequence_on_ClassAttribute(self, topic, context, depth) ==
    /\ caller.invoked < MaxInstanceCalls
    /\ LET res == InquirySequenceResult(topic, context, depth)
       IN  instances' =
                [other \in Instances |->
                    IF other.cls = self.cls
                    THEN [instances[other] EXCEPT
                            !.history = Append(@, HistoryEntry(context, res))]
                    ELSE instances[other]]
    /\ Calling(self, "generate_inquiry_sequence", None, None, None)
    /\ SingleEnginesUnchanged

\* lines 101-156 on self: self.inquiry_history.append (lines 149-153)
generate_inquiry_sequence_on(self, topic, context, depth) ==
    /\ caller.invoked < MaxInstanceCalls
    /\ LET res == InquirySequenceResult(topic, context, depth)
       IN  instances' = [instances EXCEPT
                            ![self].history = Append(@, HistoryEntry(context, res))]
    /\ Calling(self, "generate_inquiry_sequence", None, None, None)
    /\ SingleEnginesUnchanged

\* lines 470-521 on self: self.rotation_history.append (lines 514-518)
rotate_perspectives_on(self, topic, stakeholders, context) ==
    /\ caller.invoked < MaxInstanceCalls
    /\ LET res == PerspectiveRotationResult(topic, stakeholders, context)
       IN  instances' = [instances EXCEPT
                            ![self].history = Append(@, HistoryEntry(context, res))]
    /\ Calling(self, "rotate_perspectives", None, None, None)
    /\ SingleEnginesUnchanged

\* lines 696-742 on self: the profile is only read (profile.get, lines
\* 747-749) and the same dict is stored under 'learner_profile' (line 731)
design_learning_pathway_on(self, topic, learner_profile, context) ==
    /\ caller.invoked < MaxInstanceCalls
    /\ instances' = instances
    /\ Calling(self, "design_learning_pathway", learner_profile, learner_profile,
               LearningPathway(topic, learner_profile, context).learner_profile)
    /\ SingleEnginesUnchanged

NextInstances ==
    \/ \E self \in InstancesOf("InquiryGenerator"), context \in InstanceContexts :
            generate_inquiry_sequence_on(self, "AI in Education", context, 1)
    \/ \E self \in InstancesOf("PerspectiveRotator"), context \in InstanceContexts :
            rotate_perspectives_on(self, "AI in Education", 1, context)
    \/ \E self \in InstancesOf("LearningPathwayDesigner"), context \in InstanceContexts,
          learner_profile \in SessionProfiles :
            design_learning_pathway_on(self, "AI in Education", learner_profile, context)

SpecInstances == Init /\ [][NextInstances]_vars

(***************************************************************************)
(* Vocabulary of the properties.                                           *)
(***************************************************************************)
Clamp(x, lo, hi) == Max(lo, Min(x, hi))

Called(op) == call # None /\ call.op = op

Returned(op) == Called(op) /\ call.outcome = "returned"

Texts(questions) == [i \in 1..Len(questions) |-> questions[i].text]

Stakeholders(perspectives) == [i \in 1..Len(perspectives) |-> perspectives[i].stakeholder]

NoRepeat(seq) == \A i, j \in 1..Len(seq) : i # j => seq[i] # seq[j]

\* the last entry of the engine's history holds the last call's context value
\* and the result it returned
LastEntryIsLastCall(engine) ==
    /\ HistoryOf(engine) # << >>
    /\ HistoryOf(engine)[Len(HistoryOf(engine))]
         = [context |-> call.context.value, result |-> result]

\* the string a text stands for: its pieces joined
RECURSIVE Joined(_)
Joined(text) == IF text = << >> THEN "" ELSE Head(text) \o Joined(Tail(text))

StartsWith(string, prefix) ==
    Len(string) >= Len(prefix) /\ SubSeq(string, 1, Len(prefix)) = prefix

\* two invocations of the same operation with the same arguments
SameInputs(c1, c2) == [c1 EXCEPT !.outcome = "-"] = [c2 EXCEPT !.outcome = "-"]

IsPrefix(s, t) == Len(s) <= Len(t) /\ SubSeq(t, 1, Len(s)) = s

\* the entries the returned invocations of op in tr stand for, in the order
\* of the invocations
EntriesOf(tr, op) ==
    LET IsLogged(seen) == seen.call.op = op /\ seen.call.outcome = "returned"
        logged == SelectSeq(tr, IsLogged)
    IN  [i \in 1..Len(logged) |->
            [context |-> logged[i].call.context.value, result |-> logged[i].result]]

\* the fields of a stage before the readiness overlay
BaseFields == {"name", "focus", "activities", "duration"}

(***************************************************************************)
(* C1.  For every context and every depth <= 0, generate_inquiry_sequence  *)
(* returns an empty essential_questions sequence and an empty              *)
(* dialectical_pairs sequence.                                             *)
(* The code slices with [:depth], which for a negative depth keeps all but *)
(* the last -depth templates: the statement fails for depth -1 .. -4.      *)
(***************************************************************************)
C1_NonPositiveDepthIsEmpty ==
    (/\ Returned("generate_inquiry_sequence")
     /\ call.context \in LearningContexts
     /\ call.depth <= 0)
        => /\ result.essential_questions = << >>
           /\ result.dialectical_pairs = << >>

(***************************************************************************)
(* C2.  For every context and every integer depth, practical_applications  *)
(* has length clamp(depth, 0, 3) and consists of the first                 *)
(* clamp(depth, 0, 3) templates of the context's 3-template list, in list  *)
(* order.  Fails for depth -1 and -2 (2 and 1 questions returned).         *)
(***************************************************************************)
C2_PracticalIsClampedPrefix ==
    (Returned("generate_inquiry_sequence") /\ call.context \in LearningContexts)
        => LET templates == practical_lookup(call.topic, call.context)
               n == Clamp(call.depth, 0, 3)
           IN  /\ Len(result.practical_applications) = n
               /\ Texts(result.practical_applications) = SubSeq(templates, 1, n)

(***************************************************************************)
(* C3.  For every context and every integer stakeholder count,             *)
(* rotate_perspectives returns exactly clamp(stakeholders, 0, len(catalog))*)
(* perspectives; a negative or zero count yields none.                     *)
(* Fails for a count of -1 .. -7 (7 .. 1 perspectives returned).           *)
(***************************************************************************)
C3_PerspectiveCountIsClamped ==
    (Returned("rotate_perspectives") /\ call.context \in LearningContexts)
        => Len(result.perspectives)
             = Clamp(call.stakeholders, 0, Len(stakeholder_lookup(call.context)))

C5_UnknownContextFallsBack ==
    /\ (Called("generate_inquiry_sequence") /\ call.context \notin LearningContexts)
        => /\ call.outcome = "returned"
           /\ Texts(result.practical_applications)
                = SlicePrefix(practical_templates(call.topic)[LearningContext.PERSONAL],
                              call.depth)
    /\ (Called("rotate_perspectives") /\ call.context \notin LearningContexts)
        => /\ call.outcome = "returned"
           /\ Stakeholders(result.perspectives)
                = SlicePrefix(stakeholder_sets[LearningContext.PERSONAL],
                              call.stakeholders)

(***************************************************************************)
(* C6.  For each of the five context values and every depth in 1..5,       *)
(* generate_inquiry_sequence returns essential_questions of length depth,  *)
(* dialectical_pairs of length depth, synthesis_questions of length        *)
(* exactly 3 and a depth_progression with exactly 4 keys.                  *)
(***************************************************************************)
C6_LengthsForDepth1To5 ==
    (/\ Called("generate_inquiry_sequence")
     /\ call.context \in LearningContexts
     /\ call.depth \in 1..5)
        => /\ call.outcome = "returned"
           /\ Len(result.essential_questions) = call.depth
           /\ Len(result.dialectical_pairs) = call.depth
           /\ Len(result.synthesis_questions) = 3
           /\ Cardinality(DOMAIN result.depth_progression) = 4

C6_Witness ==
    /\ Returned("generate_inquiry_sequence")
    /\ call.context = LearningContext.RESEARCH
    /\ call.depth = 5
    /\ Len(result.essential_questions) = 5

(***************************************************************************)
(* C7.  For every depth > 5, generate_inquiry_sequence raises no error and *)
(* returns exactly 5 essential questions and exactly 5 dialectical pairs,  *)
(* with no question text repeated within essential_questions and no theme  *)
(* pair repeated within dialectical_pairs.                                 *)
(***************************************************************************)
C7_DepthAbove5IsCappedAt5 ==
    (/\ Called("generate_inquiry_sequence")
     /\ call.context \in LearningContexts
     /\ call.depth > 5)
        => /\ call.outcome = "returned"
           /\ Len(result.essential_questions) = 5
           /\ Len(result.dialectical_pairs) = 5
           /\ NoRepeat(Texts(result.essential_questions))
           /\ NoRepeat([i \in 1..Len(result.dialectical_pairs) |->
                          << result.dialectical_pairs[i][1].text,
                             result.dialectical_pairs[i][2].text >>])

C7_Witness ==
    /\ Returned("generate_inquiry_sequence")
    /\ call.context \in LearningContexts
    /\ call.depth > 5
    /\ Len(result.dialectical_pairs) = 5

(***************************************************************************)
(* C8.  For every context and every stakeholder count k >= 0, the          *)
(* stakeholder values of the perspectives of rotate_perspectives are       *)
(* exactly the first min(k, 8) identities of that context's catalog, in    *)
(* catalog order, none repeated and none from outside the catalog; a       *)
(* count of 10 with the ORGANIZATIONAL context yields 8 perspectives.      *)
(***************************************************************************)
C8_FirstKOfCatalog ==
    (/\ Called("rotate_perspectives")
     /\ call.context \in LearningContexts
     /\ call.stakeholders >= 0)
        => LET catalog == stakeholder_sets[call.context]
               got == Stakeholders(result.perspectives)
           IN  /\ call.outcome = "returned"
               /\ got = SubSeq(catalog, 1, Min(call.stakeholders, 8))
               /\ NoRepeat(got)
               /\ \A i \in 1..Len(got) : \E j \in 1..Len(catalog) : got[i] = catalog[j]
               /\ (call.stakeholders = 10 /\ call.context = LearningContext.ORGANIZATIONAL)
                    => Len(result.perspectives) = 8

C8_Witness ==
    /\ Returned("rotate_perspectives")
    /\ call.context = LearningContext.ORGANIZATIONAL
    /\ call.stakeholders = 10
    /\ Len(result.perspectives) = 8

(***************************************************************************)
(* C9.  Readiness follows the truth table for every profile: with          *)
(* experience_level defaulting to "beginner" and motivation_level to       *)
(* "medium" when absent, readiness is "advanced" iff experience is         *)
(* "advanced" and motivation is "high"; otherwise "intermediate" iff       *)
(* experience is "intermediate" or motivation is "high"; otherwise         *)
(* "beginner".  An empty profile is classified "beginner".                 *)
(***************************************************************************)
C9_ReadinessTruthTable ==
    Returned("design_learning_pathway")
        => LET p == call.learner_profile
               experience == IF "experience_level" \in DOMAIN p
                             THEN p["experience_level"] ELSE "beginner"
               motivation == IF "motivation_level" \in DOMAIN p
                             THEN p["motivation_level"] ELSE "medium"
               top == experience = "advanced" /\ motivation = "high"
               mid == experience = "intermediate" \/ motivation = "high"
               r == result.readiness_level
           IN  /\ (r = "advanced") <=> top
               /\ ~top => ((r = "intermediate") <=> mid)
               /\ (~top /\ ~mid) => r = "beginner"
               /\ DOMAIN p = {} => r = "beginner"

C9_Witness ==
    /\ Returned("design_learning_pathway")
    /\ DOMAIN call.learner_profile = {"motivation_level"}
    /\ call.learner_profile["motivation_level"] = "high"
    /\ result.readiness_level = "intermediate"

(***************************************************************************)
(* C10.  Every one of the 5 stage records of design_learning_pathway       *)
(* carries the overlay of the computed readiness and only that overlay:    *)
(* "beginner" adds support_level = high and scaffolding = extensive,       *)
(* "advanced" adds complexity = high and independence = maximum,           *)
(* "intermediate" adds no field; the base fields name, focus, activities   *)
(* and duration of each stage keep their fixed values.                     *)
(***************************************************************************)
C10_StagesCarryReadinessOverlay ==
    Returned("design_learning_pathway")
        => LET r == result.readiness_level
               stages == result.learning_stages
           IN  /\ Len(stages) = 5
               /\ r \in {"beginner", "intermediate", "advanced"}
               /\ \A i \in 1..Len(stages) :
                    /\ r = "beginner" =>
                        /\ DOMAIN stages[i] = BaseFields \cup {"support_level", "scaffolding"}
                        /\ stages[i]["support_level"] = <<"high">>
                        /\ stages[i]["scaffolding"] = <<"extensive">>
                    /\ r = "advanced" =>
                        /\ DOMAIN stages[i] = BaseFields \cup {"complexity", "independence"}
                        /\ stages[i]["complexity"] = <<"high">>
                        /\ stages[i]["independence"] = <<"maximum">>
                    /\ r = "intermediate" => DOMAIN stages[i] = BaseFields
                    /\ \A f \in BaseFields : stages[i][f] = base_stages[i][f]

C10_Witness ==
    /\ Returned("design_learning_pathway")
    /\ result.readiness_level = "advanced"
    /\ \A i \in 1..5 : result.learning_stages[i]["independence"] = <<"maximum">>

(***************************************************************************)
(* C11.  For every topic, profile and context, design_learning_pathway     *)
(* returns exactly 5 learning stages in the fixed order Exploration, Deep  *)
(* Inquiry, Synthesis, Application, Reflection, and estimated_duration is  *)
(* the string "10 weeks".                                                  *)
(***************************************************************************)
C11_FiveStagesTenWeeks ==
    (Called("design_learning_pathway") /\ call.context \in LearningContexts)
        => LET stages == result.learning_stages
               names == [i \in 1..Len(stages) |-> Joined(stages[i]["name"])]
           IN  /\ call.outcome = "returned"
               /\ Len(stages) = 5
               /\ names = <<"Exploration and Orientation", "Deep Inquiry and Analysis",
                            "Synthesis and Integration", "Application and Experimentation",
                            "Reflection and Evolution">>
               /\ StartsWith(names[1], "Exploration")
               /\ StartsWith(names[2], "Deep Inquiry")
               /\ StartsWith(names[3], "Synthesis")
               /\ StartsWith(names[4], "Application")
               /\ StartsWith(names[5], "Reflection")
               /\ Joined(result.estimated_duration) = "10 weeks"

C11_Witness ==
    /\ Returned("design_learning_pathway")
    /\ call.context = LearningContext.SOCIAL
    /\ result.readiness_level = "advanced"
    /\ Len(result.learning_stages) = 5
    /\ Joined(result.estimated_duration) = "10 weeks"

(***************************************************************************)
(* C12.  Each of generate_inquiry_sequence, rotate_perspectives and        *)
(* design_learning_pathway is deterministic and history-independent: two   *)
(* calls with identical inputs return structurally identical results (or   *)
(* both raise), whatever calls were made on the engines before or between  *)
(* them.                                                                   *)
(***************************************************************************)
C12_SameInputsSameResult ==
    \A i, j \in 1..Len(trace) :
        SameInputs(trace[i].call, trace[j].call)
            => /\ trace[i].result = trace[j].result
               /\ trace[i].call.outcome = trace[j].call.outcome

\* a generator call that returned is repeated with a non-empty history
C12_Witness ==
    /\ Len(trace) = 2
    /\ SameInputs(trace[1].call, trace[2].call)
    /\ Returned("generate_inquiry_sequence")
    /\ call.depth = 1
    /\ Len(inquiry_history) = 2
    /\ trace[1].result = trace[2].result

(***************************************************************************)
(* C13.  The history of an engine is append-only across any sequence of    *)
(* invocations: each invocation leaves every recorded entry in place, in   *)
(* the same position and with the same context and result, and only adds   *)
(* entries at the end, so entries appear in invocation order.              *)
(***************************************************************************)
C13_HistoryIsAppendOnly ==
    [][/\ IsPrefix(inquiry_history, inquiry_history')
       /\ IsPrefix(rotation_history, rotation_history')
       /\ inquiry_history' = EntriesOf(trace', "generate_inquiry_sequence")
       /\ rotation_history' = EntriesOf(trace', "rotate_perspectives")]_vars

\* the rotator has logged two different results, one after the other
C13_Witness ==
    /\ Len(rotation_history) = 2
    /\ rotation_history[1] # rotation_history[2]
    /\ Returned("rotate_perspectives")
    /\ rotation_history[2].result = result

(***************************************************************************)
(* C14.  No top-level operation ends in an error for inputs of the         *)
(* declared types: for every topic, every one of the five context values,  *)
(* every integer depth or stakeholder count (negative, zero or beyond the  *)
(* catalog size) and every profile mapping (also one missing any or all    *)
(* fields), generate_inquiry_sequence, rotate_perspectives and             *)
(* design_learning_pathway return a result.                                *)
(***************************************************************************)
C14_ValidInputsReturn ==
    (call # None /\ call.context \in LearningContexts)
        => /\ call.outcome = "returned"
           /\ result # None
           /\ result.topic = call.topic

\* returned: a design for the empty profile, a sequence for a negative depth,
\* or a rotation for a count beyond the catalog
C14_Witness ==
    /\ call # None
    /\ call.context \in LearningContexts
    /\ call.outcome = "returned"
    /\ \/ Called("design_learning_pathway") /\ DOMAIN call.learner_profile = {}
       \/ Called("generate_inquiry_sequence") /\ call.depth < 0
       \/ Called("rotate_perspectives") /\ call.stakeholders > 8

\* The result the invocation of thread t produces when it runs alone, and the
\* entry that invocation leaves in the history.
Alone(t) == InquirySequenceResult(threads[t].topic, threads[t].context, threads[t].depth)

AloneEntry(t) == HistoryEntry(threads[t].context, Alone(t))

Appended == { t \in Threads : threads[t].pc \in {"return", "done"} }

Occurrences(seq, x) == Cardinality({ i \in 1 .. Len(seq) : seq[i] = x })

(***************************************************************************)
(* C15  When several invocations of generate_inquiry_sequence run at the   *)
(* same time on one generator, with their statements interleaved in any    *)
(* order: every invocation returns the result it returns when run alone;   *)
(* the history holds one entry for every invocation that has passed its    *)
(* append, so exactly one entry per invocation once all have finished; and *)
(* the append is the only step that changes the history, every step        *)
(* changing otherwise nothing but the locals of the thread that takes it.  *)
(***************************************************************************)
C15_ConcurrentInvocationsAreIndependent ==
    /\ [](/\ \A t \in Threads :
                At(t, "done") => threads[t].returned = Alone(t)
          /\ Len(inquiry_history) = Cardinality(Appended)
          /\ \A t \in Appended :
                Occurrences(inquiry_history, AloneEntry(t))
                    = Cardinality({ u \in Appended : AloneEntry(u) = AloneEntry(t) }))
    /\ [][/\ \E t \in Threads : \A u \in Threads \ {t} : threads'[u] = threads[u]
          /\ inquiry_history' # inquiry_history
                => \E t \in Threads : At(t, "append") /\ threads'[t].pc = "return"
          /\ rotation_history' = rotation_history]_vars

\* Two invocations with different arguments have both finished, and the one
\* that started as thread 2 reached its append first.
C15_Witness ==
    /\ \A t \in Threads : At(t, "done")
    /\ threads[1].depth # threads[2].depth
    /\ inquiry_history[1] = AloneEntry(2)
    /\ inquiry_history[1] # AloneEntry(1)

Types(questions) == [i \in 1..Len(questions) |-> questions[i].question_type]

Levels(questions) == [i \in 1..Len(questions) |-> questions[i].depth_level]

(***************************************************************************)
(* C17  Whatever the depth and the context, a returned inquiry sequence    *)
(* holds exactly 3 synthesis questions, of types synthetic, emergent,      *)
(* practical and of depth levels transformative, emergent, transformative, *)
(* in that order.                                                          *)
(***************************************************************************)
C17_ThreeFixedSynthesisQuestions ==
    Returned("generate_inquiry_sequence")
        => /\ Len(result.synthesis_questions) = 3
           /\ Types(result.synthesis_questions) = <<"synthetic", "emergent", "practical">>
           /\ Levels(result.synthesis_questions)
                = <<"transformative", "emergent", "transformative">>

\* a depth so negative that no essential question and no pair is produced
C17_Witness ==
    /\ Returned("generate_inquiry_sequence")
    /\ call.depth < 0
    /\ result.essential_questions = << >>
    /\ result.dialectical_pairs = << >>
    /\ Len(result.synthesis_questions) = 3

(***************************************************************************)
(* C18  The depth_progression of a returned inquiry sequence has exactly   *)
(* the keys surface, analytical, transformative and emergent, and each key *)
(* maps to exactly one Question whose depth level is the key.              *)
(***************************************************************************)
C18_ProgressionHasOneQuestionPerLevel ==
    Returned("generate_inquiry_sequence")
        => /\ DOMAIN result.depth_progression
                = {"surface", "analytical", "transformative", "emergent"}
           /\ \A level \in DOMAIN result.depth_progression :
                /\ Len(result.depth_progression[level]) = 1
                /\ result.depth_progression[level][1].depth_level = level

\* the progression of a call whose depth selects a single essential question
C18_Witness ==
    /\ Returned("generate_inquiry_sequence")
    /\ call.depth = 1
    /\ Len(result.essential_questions) = 1
    /\ Cardinality(DOMAIN result.depth_progression) = 4

(***************************************************************************)
(* C19  A returned rotation holds exactly 2 bridging questions, of types   *)
(* synthetic then practical, and exactly 5 synthesis insights, 5           *)
(* collaborative opportunities and 5 potential conflicts; these three      *)
(* lists are the same whichever stakeholders the count and the context     *)
(* select.                                                                 *)
(***************************************************************************)
C19_RotationListsAreFixed ==
    Returned("rotate_perspectives")
        => /\ Len(result.bridging_questions) = 2
           /\ Types(result.bridging_questions) = <<"synthetic", "practical">>
           /\ Len(result.synthesis_insights) = 5
           /\ Len(result.collaborative_opportunities) = 5
           /\ Len(result.potential_conflicts) = 5
           /\ \A context \in LearningContexts, count \in StakeholderCounts :
                LET other == PerspectiveRotationResult(call.topic, count, context)
                IN  /\ other.synthesis_insights = result.synthesis_insights
                    /\ other.collaborative_opportunities = result.collaborative_opportunities
                    /\ other.potential_conflicts = result.potential_conflicts

\* a rotation that selected no stakeholder at all
C19_Witness ==
    /\ Returned("rotate_perspectives")
    /\ result.perspectives = << >>
    /\ Len(result.synthesis_insights) = 5
    /\ Len(result.bridging_questions) = 2

(***************************************************************************)
(* C20  For a depth from 1 to 5 the i-th dialectical pair is built from    *)
(* the i-th entry of the theme list individual/collective,                 *)
(* tradition/innovation, efficiency/equity, freedom/responsibility,        *)
(* local/global: its first Question is the one on the thesis theme, its    *)
(* second the one on the antithesis theme, both of type dialectical and    *)
(* level analytical, and the two never have the same text.                 *)
(***************************************************************************)
C20_PairsFollowTheThemeList ==
    LET themes == << <<"individual", "collective">>, <<"tradition", "innovation">>,
                     <<"efficiency", "equity">>, <<"freedom", "responsibility">>,
                     <<"local", "global">> >>
        About(question, theme, role) ==
            /\ Joined(question.text)
                = "How does " \o call.topic \o " serve " \o theme \o " interests and values?"
            /\ Joined(question.reasoning)
                = "Dialectical " \o role \o " exploring " \o theme \o " dimension of "
                    \o call.topic
            /\ question.question_type = "dialectical"
            /\ question.depth_level = "analytical"
    IN  (Returned("generate_inquiry_sequence") /\ call.depth \in 1 .. 5)
            => /\ Len(result.dialectical_pairs) = call.depth
               /\ \A i \in 1 .. call.depth :
                    LET pair == result.dialectical_pairs[i]
                    IN  /\ Len(pair) = 2
                        /\ About(pair[1], themes[i][1], "thesis")
                        /\ About(pair[2], themes[i][2], "antithesis")
                        /\ Joined(pair[1].text) # Joined(pair[2].text)

\* all five pairs were produced, the last on local/global
C20_Witness ==
    /\ Returned("generate_inquiry_sequence")
    /\ call.depth = 5
    /\ Len(result.dialectical_pairs) = 5
    /\ result.dialectical_pairs[5][2].text[4] = "global"

(***************************************************************************)
(* C16  The stage records of a designed pathway are created anew by every  *)
(* call: no record is shared between the pathways of two calls, so the     *)
(* records of every pathway returned so far still hold what they held when *)
(* the pathway was returned, which is the base stages with the overlay of  *)
(* that call's own readiness level and of no other call.                   *)
(***************************************************************************)
C16_StageRecordsAreFreshPerCall ==
    \A k \in 1..Len(pathways) :
        LET p == pathways[k]
            stages == Deref(heap, p.learning_stages)
        IN  /\ stages = p.returned
            /\ \A i \in 1..Len(stages) :
                    /\ p.readiness_level # "beginner"
                        => {"support_level", "scaffolding"} \cap DOMAIN stages[i] = {}
                    /\ p.readiness_level # "advanced"
                        => {"complexity", "independence"} \cap DOMAIN stages[i] = {}
            /\ \A j \in 1..Len(pathways) :
                    j # k => \A a \in 1..Len(p.learning_stages),
                                b \in 1..Len(pathways[j].learning_stages) :
                                p.learning_stages[a] # pathways[j].learning_stages[b]

\* an advanced learner's pathway was designed, then a beginner's
C16_Witness ==
    /\ Len(pathways) = 2
    /\ pathways[1].readiness_level = "advanced"
    /\ pathways[2].readiness_level = "beginner"
    /\ "independence" \in DOMAIN heap[pathways[1].learning_stages[1]]
    /\ "scaffolding" \in DOMAIN heap[pathways[2].learning_stages[1]]

(***************************************************************************)
(* C21  The readiness level depends on the profile only through            *)
(* experience_level and motivation_level: any two profiles that agree on   *)
(* these two fields, an absent experience_level counting as "beginner" and *)
(* an absent motivation_level as "medium", get the same readiness level    *)
(* and the same stage records, whatever time_available and every other     *)
(* field hold or whether they are present.                                 *)
(***************************************************************************)
C21_ReadinessIgnoresOtherFields ==
    Returned("design_learning_pathway")
        => LET Field(profile, key, default) ==
                   IF key \in DOMAIN profile THEN profile[key] ELSE default
               Agree(p, q) ==
                   /\ Field(p, "experience_level", "beginner")
                        = Field(q, "experience_level", "beginner")
                   /\ Field(p, "motivation_level", "medium")
                        = Field(q, "motivation_level", "medium")
           IN  \A other \in Profiles :
                   Agree(other, call.learner_profile)
                       => LET pathway == LearningPathway(call.topic, other, call.context)
                          IN  /\ pathway.readiness_level = result.readiness_level
                              /\ pathway.learning_stages = result.learning_stages

\* an advanced, highly motivated learner whose profile also gives a time
\* budget and a learning style
C21_Witness ==
    /\ Returned("design_learning_pathway")
    /\ DOMAIN call.learner_profile = ProfileKeys
    /\ call.learner_profile["time_available"] = "limited"
    /\ result.readiness_level = "advanced"
    /\ "independence" \in DOMAIN result.learning_stages[1]

(***************************************************************************)
(* C22  Each of the five LearningContext values has its own entry in the   *)
(* practical-template table and in the stakeholder table, so a call with   *)
(* one of them never takes the PERSONAL default: for a context other than  *)
(* PERSONAL no practical question carries a PERSONAL template and no       *)
(* perspective carries a PERSONAL stakeholder.                             *)
(***************************************************************************)
C22_ValidContextNeverFallsBack ==
    LET PersonalTemplates ==
            { "How can I apply insights about " \o call.topic \o " in my daily life?",
              "What changes would I need to make to align with my understanding of "
                \o call.topic \o "?",
              "How can I continue learning about " \o call.topic \o " in meaningful ways?" }
        PersonalStakeholders ==
            { "current self", "future self", "family", "friends", "mentors",
              "critics", "strangers", "cultural background" }
        Valid == call # None /\ call.context \in LearningContexts
        NotPersonal == call.context.value # "personal"
    IN  /\ Valid => /\ call.context \in DOMAIN practical_templates(call.topic)
                    /\ call.context \in DOMAIN stakeholder_sets
        /\ (Valid /\ NotPersonal /\ Returned("generate_inquiry_sequence"))
            => \A i \in 1..Len(result.practical_applications) :
                    Joined(result.practical_applications[i].text) \notin PersonalTemplates
        /\ (Valid /\ NotPersonal /\ Returned("rotate_perspectives"))
            => \A i \in 1..Len(result.perspectives) :
                    result.perspectives[i].stakeholder \notin PersonalStakeholders

\* a research-context sequence with at least one practical question
C22_Witness ==
    /\ Returned("generate_inquiry_sequence")
    /\ call.context = LearningContext.RESEARCH
    /\ Len(result.practical_applications) = 3
    /\ StartsWith(Joined(result.practical_applications[1].text), "What research questions")

(***************************************************************************)
(* C23  With several engines of each class, a call changes nothing but the *)
(* history list of the generator or rotator it is made on, which grows by  *)
(* one entry: the histories of all other engines, the template tables of   *)
(* every engine and every attribute of the designers stay as they were.    *)
(* A design leaves the caller's profile mapping as it was passed and       *)
(* returns it as learner_profile, with no key added for a missing field.   *)
(***************************************************************************)
C23_CallsChangeOnlyTheirOwnHistory ==
    /\ [](caller.op = "design_learning_pathway"
            => /\ caller.held = caller.passed
               /\ caller.returned = caller.passed
               /\ DOMAIN caller.returned = DOMAIN caller.passed)
    /\ [][\A self \in Instances :
            instances'[self] # instances[self]
                => /\ self = caller'.self
                   /\ self.cls \in {"InquiryGenerator", "PerspectiveRotator"}
                   /\ [instances'[self] EXCEPT !.history = instances[self].history]
                        = instances[self]
                   /\ Len(instances'[self].history) = Len(instances[self].history) + 1]_vars

\* one generator has been called and holds an entry while the other
\* generator's history is still empty, and then a design was made for a
\* profile without motivation_level
C23_Witness ==
    /\ caller.op = "design_learning_pathway"
    /\ DOMAIN caller.passed = {"experience_level"}
    /\ Len(instances[[cls |-> "InquiryGenerator", n |-> 2]].history) = 1
    /\ instances[[cls |-> "InquiryGenerator", n |-> 1]].history = << >>

====
